---- MODULE Spec2Model ----
(***************************************************************************)
(* Model of custom_scripts/export_assets_to_akeneo.py: a sequential pass   *)
(* over the product records of a CSV export.  For each record the script   *)
(* looks the product up by SKU, resolves one asset per image (search, and  *)
(* download + media upload + asset upsert when the asset is missing) and   *)
(* PATCHes the product's main / other image attributes.  Outcomes are      *)
(* accumulated in the stats dictionary of main().                          *)
(*                                                                         *)
(* Strings whose characters matter (file names, asset codes, the position  *)
(* column) are sequences of one-character strings.  Every HTTP request is  *)
(* one step; the response is chosen by the environment.  The PIM's asset   *)
(* collection is the set `assets`.                                         *)
(***************************************************************************)
EXTENDS Integers, Sequences, FiniteSets, TLC

VARIABLES
    rows,                  \* the CSV file: the rows csv.DictReader yields
    products,              \* main(): products = load_input_csv(input_path)
    stats,                 \* main(): the stats dictionary
    pc,                    \* position of the single thread of control
    idx,                   \* main(): index of `entry` in `products`
    visited,               \* history: indices handed to process_product
    run,                   \* 1: first invocation of main(), 2: a re-run
    items,                 \* process_product: len(items) of the lookup
    valid_images,          \* process_product: valid_images
    img,                   \* process_product: index of `img` in valid_images
    asset_code,            \* process_product: asset_code of the current image
    asset_codes_in_order,  \* process_product: asset_codes_in_order
    resolved,              \* history: image index of each appended code
    attempts,              \* download_image: iterations of the retry loop run
    last_err,              \* download_image: last_err
    issued,                \* history: requests issued for the current record
    patched,               \* history: payload of the record's product PATCH
    assets,                \* the PIM: codes in asset family product_images
    now,                   \* the last value time.time() returned
    san_in,                \* harness of sanitize_asset_code: the file name
    san_out                \* harness of sanitize_asset_code: results so far

vars == <<rows, products, stats, pc, idx, visited, run, items,
          valid_images, img, asset_code, asset_codes_in_order, resolved,
          attempts, last_err, issued, patched, assets, now, san_in, san_out>>

----
\* Bounds of the model.

\* Rows of the input file.
MaxRows == 2
\* Largest value the clock takes (seconds).
MaxTime == 1
\* Longest file name handed to sanitize_asset_code by its harness.
MaxLen == 3

----
\* Program constants.

\* download_image(url, timeout=20, retries=2)
Retries == 2
\* sanitize_asset_code: return code[:255]
MaxCodeLen == 255

\* None, where the script stores it in place of a SKU or of an error text.
None == "None"
\* main_code = None: no main image.
NoCode == <<>>
\* No product PATCH was issued.
NoPatch == [sku |-> None, main |-> NoCode, other |-> <<>>]

----
\* Character strings.

UpperSeq == <<"A","B","C","D","E","F","G","H","I","J","K","L","M",
              "N","O","P","Q","R","S","T","U","V","W","X","Y","Z">>
LowerSeq == <<"a","b","c","d","e","f","g","h","i","j","k","l","m",
              "n","o","p","q","r","s","t","u","v","w","x","y","z">>
DigitSeq == <<"0","1","2","3","4","5","6","7","8","9">>

Range(s) == { s[i] : i \in DOMAIN s }

IsDigit(c) == c \in Range(DigitSeq)
IsAlnum(c) == c \in Range(UpperSeq) \cup Range(LowerSeq) \cup Range(DigitSeq)

\* str.lower(), one character.
Lower(c) ==
    IF c \in Range(UpperSeq)
    THEN LowerSeq[CHOOSE i \in DOMAIN UpperSeq : UpperSeq[i] = c]
    ELSE c

LowerStr(s) == [i \in DOMAIN s |-> Lower(s[i])]

\* s[:n]
Take(s, n) == SubSeq(s, 1, IF Len(s) < n THEN Len(s) ELSE n)

\* s.rfind(c), 1-based; 0 when c does not occur.
RFind(s, c) ==
    IF \E i \in DOMAIN s : s[i] = c
    THEN CHOOSE i \in DOMAIN s : s[i] = c /\ \A j \in DOMAIN s : s[j] = c => j <= i
    ELSE 0

\* os.path.basename(p): p[p.rfind('/') + 1:]
Basename(p) == SubSeq(p, RFind(p, "/") + 1, Len(p))

\* os.path.splitext(p)[0] of a path without directory part: the last dot
\* starts the extension unless only dots precede it.
SplitextRoot(p) ==
    LET dot == RFind(p, ".")
    IN  IF dot > 0 /\ \E i \in 1..(dot - 1) : p[i] # "."
        THEN SubSeq(p, 1, dot - 1)
        ELSE p

\* re.sub(r'[^a-zA-Z0-9]+', '_', s): every maximal run of characters that
\* are not ASCII letters or digits becomes one underscore.  A letter or
\* digit stays; of a run, the last character becomes the underscore and
\* the others ("") go.
ReSub(s) ==
    LET out == [i \in DOMAIN s |->
                   IF IsAlnum(s[i]) THEN s[i]
                   ELSE IF i = Len(s) \/ IsAlnum(s[i + 1]) THEN "_"
                   ELSE ""]
    IN  SelectSeq(out, LAMBDA c : c # "")

\* s.strip('_')
Strip(s) ==
    LET keep == { i \in DOMAIN s : s[i] # "_" }
    IN  IF keep = {} THEN <<>>
        ELSE SubSeq(s, CHOOSE i \in keep : \A k \in keep : i <= k,
                       CHOOSE i \in keep : \A k \in keep : k <= i)

\* str(n) of a natural number.
RECURSIVE Digits(_)
Digits(n) ==
    IF n < 10 THEN <<DigitSeq[n + 1]>>
    ELSE Digits(n \div 10) \o <<DigitSeq[(n % 10) + 1]>>

\* int(s) of a string of decimal digits; -1 stands for ValueError.
RECURSIVE ParseInt(_)
ParseInt(s) ==
    IF s = <<>> \/ \E i \in DOMAIN s : ~IsDigit(s[i]) THEN -1
    ELSE IF Len(s) = 1 THEN (CHOOSE i \in DOMAIN DigitSeq : DigitSeq[i] = s[1]) - 1
    ELSE 10 * ParseInt(SubSeq(s, 1, Len(s) - 1))
         + ParseInt(<<s[Len(s)]>>)

----
\* sanitize_asset_code

\* The file names of the input files of the model.
\* "Nice-Image!.jpg"
FnNice == <<"N","i","c","e","-","I","m","a","g","e","!",".","j","p","g">>
\* "!!.jpg": its slug is empty
FnBang == <<"!","!",".","j","p","g">>
Filenames == {FnNice, FnBang}

\* The slug of a file name, before the fallback.
Slug(filename) == Strip(ReSub(LowerStr(SplitextRoot(Basename(filename)))))

\* The slugs of the model's file names, computed once.
SlugTable == [f \in Filenames |-> Slug(f)]
SlugOf(filename) ==
    IF filename \in Filenames THEN SlugTable[filename] ELSE Slug(filename)

\* f"asset_{int(time.time())}"
FallbackCode(t) == <<"a","s","s","e","t","_">> \o Digits(t)

\* sanitize_asset_code(filename), when time.time() returns t.
SanitizeAssetCode(filename, t) ==
    LET code == SlugOf(filename)
    IN  Take(IF code = <<>> THEN FallbackCode(t) ELSE code, MaxCodeLen)

\* The values time.time() may return to the call: the clock is read only
\* by the fallback, and never runs backwards.
ClockReads(filename) == IF SlugOf(filename) = <<>> THEN now..MaxTime ELSE {now}

----
\* load_input_csv

\* if image_url and image_seo_filename and image_position
RowHasImage(row) ==
    /\ row.image_url # ""
    /\ row.image_seo_filename # <<>>
    /\ row.image_position # <<>>

\* int(image_position) raises ValueError on some row: the load fails.
LoadRaises(rs) ==
    \E i \in DOMAIN rs : RowHasImage(rs[i]) /\ ParseInt(rs[i].image_position) < 0

\* The image descriptor appended for a row that has image data.
ImageOf(row) ==
    [url |-> row.image_url,
     seo_filename |-> row.image_seo_filename,
     position |-> ParseInt(row.image_position)]

\* The loop over the reader: products[sku] is created at the first row of
\* a SKU (dictionaries keep insertion order) and the row's image appended.
RECURSIVE GroupRows(_, _)
GroupRows(rs, acc) ==
    IF rs = <<>> THEN acc
    ELSE
        LET row  == Head(rs)
            seen == \E k \in DOMAIN acc : acc[k].sku = row.sku
            acc1 == IF seen THEN acc
                    ELSE Append(acc, [sku |-> row.sku,
                                      name |-> row.product_title,
                                      images |-> <<>>])
            acc2 == [k \in DOMAIN acc1 |->
                        IF acc1[k].sku = row.sku /\ RowHasImage(row)
                        THEN [acc1[k] EXCEPT !.images = Append(@, ImageOf(row))]
                        ELSE acc1[k]]
        IN  GroupRows(Tail(rs), acc2)

\* list.sort(key=lambda x: x.get('position', 9999)): a stable sort.
RECURSIVE InsertByPosition(_, _)
InsertByPosition(x, sorted) ==
    IF sorted = <<>> THEN <<x>>
    ELSE IF x.position < Head(sorted).position THEN <<x>> \o sorted
    ELSE <<Head(sorted)>> \o InsertByPosition(x, Tail(sorted))

RECURSIVE SortByPosition(_)
SortByPosition(s) ==
    IF s = <<>> THEN <<>>
    ELSE InsertByPosition(s[Len(s)], SortByPosition(SubSeq(s, 1, Len(s) - 1)))

\* load_input_csv(path), for a file whose rows are rs.
LoadInputCsv(rs) ==
    LET grouped == GroupRows(rs, <<>>)
    IN  [k \in DOMAIN grouped |->
            [grouped[k] EXCEPT !.images = SortByPosition(@)]]

----
\* The input files of the model.

Url == "http://x/a.jpg"

Row(sku, url, fn, pos) ==
    [sku |-> sku, product_title |-> "Widget", image_url |-> url,
     image_seo_filename |-> fn, image_position |-> pos]

Positions == {<<"1">>, <<"2">>}

\* Rows with complete image data: product S1 with either file name, product
\* S2 with the first one.
ValidRows ==
    { Row("S1", Url, f, p) : f \in Filenames, p \in Positions }
    \cup { Row("S2", Url, FnNice, p) : p \in Positions }
\* Rows with one image column left empty.
BlankRows ==
    { Row("S1", "", FnNice, <<"1">>),
      Row("S1", Url, <<>>, <<"1">>),
      Row("S1", Url, FnNice, <<>>) }
\* A row without SKU, and a row whose position is not a number.
OddRows == { Row("", Url, FnNice, <<"1">>), Row("S1", Url, FnNice, <<"x">>) }

RowSet == ValidRows \cup BlankRows \cup OddRows

InputFiles == UNION { [1..n -> RowSet] : n \in 0..MaxRows }

----
\* State of a run.

\* stats = {"total": len(products), "updated": [], "not_found": [], ...}
NewStats(n) ==
    [total |-> n, updated |-> <<>>, not_found |-> <<>>,
     ambiguous |-> <<>>, other |-> <<>>]

\* stats["other"].append((key, reason)).  A reason is the fixed part of the
\* message; the status code and response text that follow it are left out.
Other(st, key, reason) == [st EXCEPT !.other = Append(@, <<key, reason>>)]

\* stats["updated"].append(sku)
Updated(st, sku) == [st EXCEPT !.updated = Append(@, sku)]

\* The record process_product is working on, and its SKU.
Entry == products[idx]
Sku == Entry.sku

\* One more call of the current record that issued requests, for image i
\* (0: for the product), with what it came to: "ok", "error" (the error
\* return of the function) or "raise" (an exception); for the asset
\* search "found" or "missing" in place of "ok".
Log(op, i, res) == Append(issued, [op |-> op, img |-> i, res |-> res])

inputVars == <<rows, products, run>>
sanVars == <<san_in, san_out>>
loopVars == <<img, asset_codes_in_order, resolved, attempts, last_err>>
imageVars == <<asset_code, loopVars>>

\* The locals of process_product and download_image before the call.
ResetLocals ==
    /\ items' = -1
    /\ valid_images' = <<>>
    /\ img' = 0
    /\ asset_code' = NoCode
    /\ asset_codes_in_order' = <<>>
    /\ resolved' = <<>>
    /\ attempts' = 0
    /\ last_err' = None
    /\ issued' = <<>>
    /\ patched' = NoPatch

----
\* main: loading the input.

Init ==
    /\ rows \in InputFiles
    /\ products = <<>>
    /\ stats = NewStats(0)
    /\ pc = "load"
    /\ idx = 1
    /\ visited = <<>>
    /\ run = 1
    /\ items = -1
    /\ valid_images = <<>>
    /\ img = 0
    /\ asset_code = NoCode
    /\ asset_codes_in_order = <<>>
    /\ resolved = <<>>
    /\ attempts = 0
    /\ last_err = None
    /\ issued = <<>>
    /\ patched = NoPatch
    /\ assets = {}
    /\ now = 0
    /\ san_in = <<>>
    /\ san_out = <<>>

\* products = load_input_csv(input_path); stats = {...}
Load ==
    /\ pc = "load"
    /\ ~LoadRaises(rows)
    /\ products' = LoadInputCsv(rows)
    /\ stats' = NewStats(Len(products'))
    /\ idx' = 1
    /\ visited' = <<>>
    /\ pc' = "loop"
    /\ ResetLocals
    /\ UNCHANGED <<rows, run, assets, now, sanVars>>

\* except Exception: print("Failed to load input file"); sys.exit(2)
LoadFails ==
    /\ pc = "load"
    /\ LoadRaises(rows)
    /\ pc' = "exit"
    /\ UNCHANGED <<rows, products, stats, idx, visited, run, items,
                   valid_images, imageVars, issued, patched, assets, now, sanVars>>

----
\* main: the end of one call of process_product.

\* process_product returned: the for loop of main goes to the next entry.
Return(st) ==
    /\ stats' = st
    /\ idx' = idx + 1
    /\ pc' = "loop"

\* A variant of Unhandled that lets the exception leave main.
UnhandledPropagates ==
    /\ pc' = "exit"
    /\ UNCHANGED <<stats, idx>>

\* except Exception as e: stats["other"].append((sku, f"Unhandled: {e}"))
Unhandled == Return(Other(stats, Sku, "Unhandled"))

----
\* process_product: the loop over valid_images.

\* if not asset_codes_in_order
NoAssetsToLink(codes) == codes = <<>>

\* A variant of NoAssets that counts the record as updated.
NoAssetsUpdated(st, sku) == Updated(st, sku)

\* stats["other"].append((sku, "no assets to link"))
NoAssets(st, sku) == Other(st, sku, "no assets to link")

\* The current image is done and left the resolved codes `codes` (of the
\* images rs) and the statistics st: the loop takes the next image or, after
\* the last one, the function goes on to the product update.
NextImage(st, codes, rs) ==
    /\ asset_codes_in_order' = codes
    /\ resolved' = rs
    /\ attempts' = 0
    /\ last_err' = None
    /\ IF img < Len(valid_images)
       THEN /\ img' = img + 1
            /\ pc' = "search"
            /\ stats' = st
            /\ idx' = idx
       ELSE /\ img' = img
            /\ IF NoAssetsToLink(codes)
               THEN Return(NoAssets(st, Sku))
               ELSE /\ pc' = "update"
                    /\ stats' = st
                    /\ idx' = idx

\* A variant of SkipImage that gives the product up at the first failure.
SkipImageReturns(reason) ==
    /\ Return(Other(stats, Sku, reason))
    /\ UNCHANGED loopVars

\* stats["other"].append((sku, reason)); continue
SkipImage(reason) ==
    NextImage(Other(stats, Sku, reason), asset_codes_in_order, resolved)

\* asset_codes_in_order.append(asset_code), of the current image
AppendCode(code) ==
    NextImage(stats, Append(asset_codes_in_order, code), Append(resolved, img))

----
\* process_product: from the call to the first image.

\* if not img or not img.get("url") or not img.get("seo_filename")
IsValidImage(image) == image.url # "" /\ image.seo_filename # <<>>

\* valid_images, sorted by position.
ValidImages(images) == SortByPosition(SelectSeq(images, IsValidImage))

\* stats["other"].append((sku, "Invalid image entry")), once per image
\* that is not valid.
RECURSIVE RecordInvalid(_, _, _)
RecordInvalid(st, sku, images) ==
    IF images = <<>> THEN st
    ELSE RecordInvalid(IF IsValidImage(Head(images)) THEN st
                       ELSE Other(st, sku, "Invalid image entry"),
                       sku, Tail(images))

\* A variant of LookupRoute that takes the first of several matches.
LookupRouteFirst(n) == IF n = 0 THEN "not_found" ELSE "one"

\* if len(items) == 0 ... if len(items) > 1 ...
LookupRoute(n) ==
    IF n = 0 THEN "not_found" ELSE IF n > 1 THEN "ambiguous" ELSE "one"

\* A variant of NoValidImages that records nothing.
NoValidImagesSilent(st, sku) == st

\* if not valid_images: stats["updated"].append(sku)
NoValidImages(st, sku) == Updated(st, sku)

\* The product search found n items.
LookedUp(n) ==
    LET route == LookupRoute(n)
        st    == RecordInvalid(stats, Sku, Entry.images)
        valid == ValidImages(Entry.images)
    IN  /\ items' = n
        /\ IF route = "not_found"
           THEN /\ Return([stats EXCEPT !.not_found = Append(@, Sku)])
                /\ UNCHANGED <<valid_images, img>>
           ELSE IF route = "ambiguous"
           THEN /\ Return([stats EXCEPT !.ambiguous = Append(@, Sku)])
                /\ UNCHANGED <<valid_images, img>>
           ELSE /\ valid_images' = valid
                /\ IF valid = <<>>
                   THEN /\ Return(NoValidImages(st, Sku))
                        /\ UNCHANGED img
                   ELSE /\ stats' = st
                        /\ idx' = idx
                        /\ img' = 1
                        /\ pc' = "search"

\* for entry in products: process_product(http, entry, stats), up to the
\* first image or to the return that comes before it.
ProcessProduct ==
    /\ pc = "loop"
    /\ idx <= Len(products)
    /\ visited' = Append(visited, idx)
    /\ asset_code' = NoCode
    /\ asset_codes_in_order' = <<>>
    /\ resolved' = <<>>
    /\ attempts' = 0
    /\ last_err' = None
    /\ patched' = NoPatch
    /\ IF Sku = ""
       THEN /\ Return(Other(stats, None, "Missing sku"))
            /\ issued' = <<>>
            /\ items' = -1
            /\ valid_images' = <<>>
            /\ img' = 0
       ELSE \/ /\ Unhandled
               /\ issued' = <<[op |-> "lookup", img |-> 0, res |-> "raise"]>>
               /\ items' = -1
               /\ valid_images' = <<>>
               /\ img' = 0
            \/ \E status \in {200, 500} :
                  /\ status # 200
                  /\ Return(Other(stats, Sku, "Product search failed"))
                  /\ issued' = <<[op |-> "lookup", img |-> 0, res |-> "error"]>>
                  /\ items' = -1
                  /\ valid_images' = <<>>
                  /\ img' = 0
            \/ \E n \in 0..2 :
                  /\ LookedUp(n)
                  /\ issued' = <<[op |-> "lookup", img |-> 0, res |-> "ok"]>>
    /\ UNCHANGED <<inputVars, assets, now, sanVars>>

----
\* process_product: one image.

\* find_asset_by_code, with the asset_code sanitize_asset_code derives.
FindAsset ==
    /\ pc = "search"
    /\ \E t \in ClockReads(valid_images[img].seo_filename) :
          LET code == SanitizeAssetCode(valid_images[img].seo_filename, t)
          IN  /\ now' = t
              /\ asset_code' = code
              /\ \/ /\ Unhandled
                    /\ issued' = Log("search", img, "raise")
                    /\ UNCHANGED loopVars
                 \/ \E status \in {200, 500} :
                       IF status # 200
                       THEN /\ SkipImage("Asset search failed")
                            /\ issued' = Log("search", img, "error")
                       ELSE IF code \in assets
                       THEN /\ AppendCode(code)
                            /\ issued' = Log("search", img, "found")
                       ELSE /\ pc' = "download"
                            /\ issued' = Log("search", img, "missing")
                            /\ UNCHANGED <<stats, idx, loopVars>>
    /\ UNCHANGED <<inputVars, visited, items, valid_images, patched, assets, sanVars>>

\* A variant of DownloadExhausted with one iteration too many.
DownloadExhaustedLate(n) == n = Retries + 2

\* for _ in range(retries + 1): the loop ends after n iterations.
DownloadExhausted(n) == n = Retries + 1

\* download_image: one iteration of the retry loop.  The GET returns 200,
\* returns another status ("HTTP") or raises ("exc").  attempts and
\* last_err are locals of the call: they end with it.
DownloadAttempt ==
    /\ pc = "download"
    /\ \E res \in {"200", "HTTP", "exc"} :
          IF res = "200"
          THEN /\ attempts' = 0
               /\ last_err' = None
               /\ pc' = "upload"
               /\ issued' = Log("download", img, "ok")
               /\ UNCHANGED <<stats, idx, img, asset_codes_in_order, resolved>>
          ELSE IF DownloadExhausted(attempts + 1)
          THEN /\ SkipImage("download error")
               /\ issued' = Log("download", img, "error")
          ELSE /\ attempts' = attempts + 1
               /\ last_err' = res
               /\ UNCHANGED <<stats, idx, pc, img, asset_codes_in_order,
                              resolved, issued>>
    /\ UNCHANGED <<inputVars, visited, items, valid_images, asset_code, patched,
                   assets, now, sanVars>>

\* upload_asset_media
UploadMedia ==
    /\ pc = "upload"
    /\ \/ /\ Unhandled
          /\ issued' = Log("upload", img, "raise")
          /\ UNCHANGED loopVars
       \/ \E status \in {201, 202, 500}, header \in BOOLEAN :
             IF status \notin {201, 202}
             THEN /\ SkipImage("media upload error: Media upload failed")
                  /\ issued' = Log("upload", img, "error")
             ELSE IF ~header
             THEN /\ SkipImage("media upload error: Missing asset-media-file-code")
                  /\ issued' = Log("upload", img, "error")
             ELSE /\ pc' = "upsert"
                  /\ issued' = Log("upload", img, "ok")
                  /\ UNCHANGED <<stats, idx, loopVars>>
    /\ UNCHANGED <<inputVars, visited, items, valid_images, asset_code, patched,
                   assets, now, sanVars>>

\* upsert_asset: the PIM creates the asset when it answers 201 or 204.
UpsertAsset ==
    /\ pc = "upsert"
    /\ \/ /\ Unhandled
          /\ issued' = Log("upsert", img, "raise")
          /\ UNCHANGED <<loopVars, assets>>
       \/ \E status \in {201, 204, 500} :
             IF status \notin {201, 204}
             THEN /\ SkipImage("asset upsert error")
                  /\ issued' = Log("upsert", img, "error")
                  /\ UNCHANGED assets
             ELSE /\ assets' = assets \cup {asset_code}
                  /\ AppendCode(asset_code)
                  /\ issued' = Log("upsert", img, "ok")
    /\ UNCHANGED <<inputVars, visited, items, valid_images, asset_code, patched,
                   now, sanVars>>

----
\* process_product: the product update.

\* main_code: if valid_images and valid_images[0].get("position") == 1
MainCode(images, codes) ==
    IF images # <<>> /\ images[1].position = 1 THEN codes[1] ELSE NoCode

\* other_codes
OtherCodes(images, codes) ==
    IF images # <<>> /\ images[1].position = 1 THEN Tail(codes) ELSE codes

\* update_product_assets(http, sku, main_code, other_codes)
UpdateProduct ==
    /\ pc = "update"
    /\ patched' = [sku |-> Sku,
                   main |-> MainCode(valid_images, asset_codes_in_order),
                   other |-> OtherCodes(valid_images, asset_codes_in_order)]
    /\ \/ /\ Unhandled
          /\ issued' = Log("update", 0, "raise")
       \/ \E status \in {201, 204, 500} :
             IF status \notin {201, 204}
             THEN /\ Return(Other(stats, Sku, "product update error"))
                  /\ issued' = Log("update", 0, "error")
             ELSE /\ Return(Updated(stats, Sku))
                  /\ issued' = Log("update", 0, "ok")
    /\ UNCHANGED <<inputVars, visited, items, valid_images, imageVars, assets,
                   now, sanVars>>

----
\* main: after the loop.

\* print_summary(stats)
PrintSummary ==
    /\ pc = "loop"
    /\ idx > Len(products)
    /\ pc' = "done"
    /\ UNCHANGED <<rows, products, stats, idx, visited, run, items,
                   valid_images, imageVars, issued, patched, assets, now, sanVars>>

\* Every record of the run was updated and nothing else was recorded.
Clean ==
    /\ stats.other = <<>>
    /\ stats.not_found = <<>>
    /\ stats.ambiguous = <<>>
    /\ Len(stats.updated) = Len(products)

\* After a run that updated every record, the script is run once more on
\* the same input file, some time later.
Rerun ==
    /\ pc = "done"
    /\ run = 1
    /\ Clean
    /\ run' = 2
    /\ pc' = "load"
    /\ UNCHANGED <<rows, products, stats, idx, visited, items, valid_images,
                   imageVars, issued, patched, assets, now, sanVars>>

Next ==
    \/ Load
    \/ LoadFails
    \/ ProcessProduct
    \/ FindAsset
    \/ DownloadAttempt
    \/ UploadMedia
    \/ UpsertAsset
    \/ UpdateProduct
    \/ PrintSummary
    \/ Rerun

Spec == Init /\ [][Next]_vars

\* The script runs on: every call returns or raises, so a step that can be
\* taken is taken.
FairSpec == Spec /\ WF_vars(Next)

----
\* A harness that calls sanitize_asset_code twice with one file name.

SanChars == {"A", "b", "1", "-", "_", ".", "/"}
SanFilenames == UNION { [1..n -> SanChars] : n \in 0..MaxLen }

SanInit ==
    /\ san_in \in SanFilenames
    /\ san_out = <<>>
    /\ now = 0
    /\ pc = "sanitize"
    /\ rows = <<>>
    /\ products = <<>>
    /\ stats = NewStats(0)
    /\ idx = 1
    /\ visited = <<>>
    /\ run = 1
    /\ items = -1
    /\ valid_images = <<>>
    /\ img = 0
    /\ asset_code = NoCode
    /\ asset_codes_in_order = <<>>
    /\ resolved = <<>>
    /\ attempts = 0
    /\ last_err = None
    /\ issued = <<>>
    /\ patched = NoPatch
    /\ assets = {}

\* code = sanitize_asset_code(san_in), at a time the clock has reached
SanCall ==
    /\ pc = "sanitize"
    /\ Len(san_out) < 2
    /\ \E t \in ClockReads(san_in) :
          /\ now' = t
          /\ san_out' = Append(san_out, SanitizeAssetCode(san_in, t))
    /\ UNCHANGED <<rows, products, stats, pc, idx, visited, run, items,
                   valid_images, imageVars, issued, patched, assets, san_in>>

SanNext == SanCall

SanSpec == SanInit /\ [][SanNext]_vars

----
\* Vocabulary of the properties.

\* The key under which stats["other"] holds a record: None for no SKU.
StatsKey(sku) == IF sku = "" THEN None ELSE sku

\* The (SKU, reason) pairs of a SKU in stats["other"].
OtherOf(sku) == SelectSeq(stats.other, LAMBDA e : e[1] = StatsKey(sku))

\* The buckets of stats that hold a SKU.
Buckets(sku) ==
    { b \in {"updated", "not_found", "ambiguous"} : sku \in Range(stats[b]) }
    \cup (IF OtherOf(sku) # <<>> THEN {"other"} ELSE {})

\* process_product has returned or raised and main is back at its loop; the
\* locals are those of the record that was processed last, LastSku.
Finished == pc \in {"loop", "done"} /\ visited # <<>>
LastSku == products[idx - 1].sku

\* process_product is at work on a record, past the lookup.
InImages == pc \in {"search", "download", "upload", "upsert", "update"}

\* The SKU of the record the locals belong to.
RecordSku == IF Finished THEN LastSku ELSE Sku

\* A request of the record raised an exception.
Raised == \E k \in DOMAIN issued : issued[k].res = "raise"

\* The calls made for image i of the record.
Ops(i) == { issued[k].op : k \in { j \in DOMAIN issued : issued[j].img = i } }

\* The calls for images that returned an error, and their images.
ImageErrors == { k \in DOMAIN issued : issued[k].img > 0 /\ issued[k].res = "error" }
FailedImages == { issued[k].img : k \in ImageErrors }

\* The reasons recorded when an image is skipped.
ImageReasons ==
    {"Asset search failed", "download error",
     "media upload error: Media upload failed",
     "media upload error: Missing asset-media-file-code",
     "asset upsert error"}

\* The codes the product PATCH carries, main first.
PatchedCodes ==
    (IF patched.main # NoCode THEN <<patched.main>> ELSE <<>>) \o patched.other

----
\* C1

(* C1, as stated: after main() has iterated all records, the SKU of every
   record is in exactly one of stats["updated"], stats["not_found"],
   stats["ambiguous"] and stats["other"]. *)
C1_ExactlyOneBucket ==
    pc = "done" =>
        \A k \in DOMAIN products : Cardinality(Buckets(products[k].sku)) = 1

(* C1, amended: after main() has iterated all records, the SKU of every
   record is in at least one bucket and in at most one of updated,
   not_found and ambiguous; a SKU in not_found or ambiguous is not in
   other.  A SKU is in both updated and other only when its product update
   succeeded although an image of the record failed to resolve. *)
C1_Routed ==
    /\ pc = "done" =>
          \A k \in DOMAIN products :
             LET b == Buckets(products[k].sku)
             IN  /\ b # {}
                 /\ Cardinality(b \ {"other"}) <= 1
                 /\ b \cap {"not_found", "ambiguous"} # {} => "other" \notin b
    /\ (Finished /\ {"updated", "other"} \subseteq Buckets(LastSku)) =>
          /\ patched.sku = LastSku
          /\ issued[Len(issued)] = [op |-> "update", img |-> 0, res |-> "ok"]
          /\ FailedImages # {}
          /\ asset_codes_in_order # <<>>

C1_Witness ==
    /\ pc = "done"
    /\ \E k \in DOMAIN products : Buckets(products[k].sku) = {"updated", "other"}

----
\* C2

(* C2: whenever the product update PATCH is issued, the main attribute holds
   the resolved code of an image whose position is 1 and of no other image,
   and the other resolved codes are the other-images list in order. *)
C2_MainIsPositionOne ==
    patched # NoPatch =>
        /\ patched.main # NoCode =>
              \E j \in DOMAIN resolved :
                 /\ asset_codes_in_order[j] = patched.main
                 /\ valid_images[resolved[j]].position = 1
        /\ PatchedCodes = asset_codes_in_order

----
\* C3

\* The lookup found one product and the record ended without a resolved code.
NoCodeResolved == Finished /\ items = 1 /\ asset_codes_in_order = <<>>

(* C3, as stated: a record with exactly one match and no resolved asset
   code, the record without valid images included, gets no product PATCH
   and its SKU is under stats["other"] and not under stats["updated"]. *)
C3_NoCodesIsOther ==
    NoCodeResolved =>
        /\ patched = NoPatch
        /\ "other" \in Buckets(LastSku)
        /\ "updated" \notin Buckets(LastSku)

(* C3, amended: a record with exactly one match, at least one valid image
   and no resolved asset code gets no product PATCH and its SKU is under
   stats["other"] and not under stats["updated"]; a record with exactly
   one match and no valid image gets no product PATCH either, and its SKU
   is under stats["updated"]. *)
C3_NoCodesSkipsUpdate ==
    NoCodeResolved =>
        /\ patched = NoPatch
        /\ "update" \notin Ops(0)
        /\ IF valid_images = <<>>
           THEN "updated" \in Buckets(LastSku)
           ELSE /\ "other" \in Buckets(LastSku)
                /\ "updated" \notin Buckets(LastSku)

C3_Witness ==
    /\ NoCodeResolved
    /\ valid_images # <<>>
    /\ ~Raised
    /\ stats.other[Len(stats.other)] = <<LastSku, "no assets to link">>

----
\* C4

(* C4: for an image whose asset code the search finds, only the search is
   issued and the code is appended; and a second run over the same input,
   after a first run that updated every record, issues no media upload and
   no asset upsert. *)
C4_ExistingAssetsOnlySearched ==
    /\ \A k \in DOMAIN issued :
          (issued[k].op = "search" /\ issued[k].res = "found") =>
              /\ Ops(issued[k].img) = {"search"}
              /\ issued[k].img \in Range(resolved)
    /\ (run = 2 /\ pc # "load") =>
          \A k \in DOMAIN issued : issued[k].op \notin {"upload", "upsert"}

----
\* C5

\* The records were handed to process_product once each, in order; a call
\* that raised left (SKU, "Unhandled") as the last pair of stats["other"].
C5_Safety ==
    /\ Len(visited) <= Len(products)
    /\ \A k \in DOMAIN visited : visited[k] = k
    /\ pc = "done" => Len(visited) = Len(products)
    /\ (Finished /\ Raised) =>
          /\ stats.other # <<>>
          /\ stats.other[Len(stats.other)] = <<LastSku, "Unhandled">>
          /\ Cardinality(Buckets(LastSku) \ {"other"}) = 0

(* C5: an exception raised by process_product for one record is recorded as
   (SKU, "Unhandled") under stats["other"]; every record of the list is
   processed exactly once, in order, and from every entry of the loop of
   main the run reaches print_summary. *)
C5_BatchCompletes == []C5_Safety /\ ((pc = "loop") ~> (pc = "done"))

C5_Witness ==
    /\ pc = "done"
    /\ Len(products) = 2
    /\ visited = <<1, 2>>
    /\ <<products[1].sku, "Unhandled">> \in Range(stats.other)
    /\ Buckets(products[2].sku) # {}

----
\* C6

(* C6: a record whose lookup succeeds with zero matches has its SKU in
   stats["not_found"] only, one with several matches in stats["ambiguous"]
   only; neither is in stats["updated"] or stats["other"], and no request
   follows the lookup. *)
C6_LookupBuckets ==
    /\ (Finished /\ items = 0) => Buckets(LastSku) = {"not_found"}
    /\ (Finished /\ items > 1) => Buckets(LastSku) = {"ambiguous"}
    /\ (Finished /\ items \in {0, 2}) =>
          /\ patched = NoPatch
          /\ issued = <<[op |-> "lookup", img |-> 0, res |-> "ok"]>>
    /\ \A k \in DOMAIN products :
          LET b == Buckets(products[k].sku)
          IN  b \cap {"not_found", "ambiguous"} # {} => Cardinality(b) = 1

C6_Witness ==
    /\ pc = "done"
    /\ stats.not_found # <<>>
    /\ stats.ambiguous # <<>>

----
\* C7

\* The download_image calls of the record that returned an error.
FailedDownloads ==
    { k \in DOMAIN issued : issued[k].op = "download" /\ issued[k].res = "error" }

(* C7: download_image makes at most 1 + retries attempts and makes another
   attempt only after a failed one; when every attempt failed, the record
   gets one "download error" under stats["other"] and neither the media
   upload nor the asset upsert is issued for that image. *)
C7_DownloadRetries ==
    /\ attempts <= Retries
    /\ pc = "download" => (attempts > 0 <=> last_err # None)
    /\ pc # "download" => attempts = 0
    /\ (Finished \/ InImages) =>
          /\ \A k \in FailedDownloads :
                /\ Ops(issued[k].img) = {"search", "download"}
                /\ issued[k].img \notin Range(resolved)
          /\ Len(SelectSeq(stats.other,
                           LAMBDA e : e = <<RecordSku, "download error">>))
             = Cardinality(FailedDownloads)

C7_Witness ==
    /\ Finished
    /\ FailedDownloads # {}
    /\ <<LastSku, "download error">> \in Range(stats.other)

----
\* C8

\* The rows of a SKU that lack an image column.
BlankRowsOf(sku) ==
    { i \in DOMAIN rows : rows[i].sku = sku /\ ~RowHasImage(rows[i]) }

(* C8: every input row with an empty url, seo_filename or position has,
   after the run, an entry of its own for its SKU in stats["other"]. *)
C8_BlankRowsRecorded ==
    pc = "done" =>
        \A i \in DOMAIN rows :
           Len(OtherOf(rows[i].sku)) >= Cardinality(BlankRowsOf(rows[i].sku))

----
\* C9

(* C9: two calls of sanitize_asset_code with the same file name return the
   same code, whenever they are made. *)
C9_Deterministic == Len(san_out) = 2 => san_out[1] = san_out[2]

----
\* C10

\* The images of the record whose code was found or created.
SucceededImages ==
    { issued[k].img : k \in { j \in DOMAIN issued :
         \/ issued[j].op = "search" /\ issued[j].res = "found"
         \/ issued[j].op = "upsert" /\ issued[j].res = "ok" } }

(* C10: an image whose search, download, upload or upsert returns an error
   leaves one pair under stats["other"] and no code; unless a request
   raises, every image of the record is searched, and the product PATCH
   carries the codes of the images that resolved, in their order, when
   there is one. *)
C10_FailureSkipsOneImage ==
    ((Finished \/ InImages) /\ items = 1) =>
        /\ Cardinality(ImageErrors) = Cardinality(FailedImages)
        /\ Len(SelectSeq(stats.other,
                         LAMBDA e : e[1] = RecordSku /\ e[2] \in ImageReasons))
           = Cardinality(FailedImages)
        /\ FailedImages \cap Range(resolved) = {}
        /\ Range(resolved) = SucceededImages
        /\ Len(asset_codes_in_order) = Len(resolved)
        /\ \A j \in DOMAIN resolved : \A l \in DOMAIN resolved :
              j < l => resolved[j] < resolved[l]
        /\ (~Raised /\ (pc = "update" \/ Finished)) =>
              \A i \in DOMAIN valid_images : "search" \in Ops(i)
        /\ (~Raised /\ Finished /\ asset_codes_in_order # <<>>) =>
              /\ patched.sku = LastSku
              /\ PatchedCodes = asset_codes_in_order

C10_Witness ==
    /\ Finished
    /\ ~Raised
    /\ 1 \in FailedImages
    /\ 2 \in Range(resolved)
    /\ patched # NoPatch
    /\ PatchedCodes = asset_codes_in_order

====
